---------------------------- MODULE Spec2Model ----------------------------
(***************************************************************************)
(* A model of examples/fly/fly.c: the quadrotor attitude core              *)
(* (flight_core), the flight-mode supervisor (flight_stack with            *)
(* wait_for_arming_sequence), the safety watchdog, the DSM2 radio watcher  *)
(* and the pause-button handler, running as concurrent tasks over the      *)
(* global records core_setpoint, core_state and user_interface.            *)
(*                                                                         *)
(* Numbers.  Every float of the program is an integer number of            *)
(* thousandths here (0.2 rad is 200, a stick at +1 is 1000).  Times of the *)
(* radio watcher are tenths of a second (0.3 s is 3).                      *)
(***************************************************************************)
EXTENDS Integers, Sequences, FiniteSets, TLC

(***************************************************************************)
(* Program constants (fly.c lines 44-61), in thousandths.                  *)
(***************************************************************************)
DT == 5
MAX_YAW_COMPONENT == 210
MAX_THRUST_COMPONENT == 800
MAX_ROLL_COMPONENT == 200
MAX_PITCH_COMPONENT == 200
INT_CUTOFF_TH == 300
YAW_CUTOFF_TH == 100
ARM_TIP_THRESHOLD == 200
LAND_SATURATION == 50
TIP_THRESHOLD == 1500
EMERGENCY_LAND_THR == 150
\* Radio time-outs, in tenths of a second.
DSM2_LAND_TIMEOUT == 3
DSM2_DISARM_TIMEOUT == 50
\* Literals of the code.
LAND_THROTTLE == 100
YAW_JUMP == 6000
STICK_LIMIT == 900
ARM_PULSES == 10
PAUSE_POLLS == 10
\* 2*PI, and one unit (1.0) of the fixed-point scale.
TWO_PI == 6283
ONE == 1000

(***************************************************************************)
(* Fixed-point arithmetic.                                                 *)
(***************************************************************************)
Abs(x) == IF x < 0 THEN -x ELSE x

\* The product of two thousandths, rounded towards zero.
Mul(a, b) ==
    LET p == a * b
    IN  IF p >= 0 THEN p \div ONE ELSE -((-p) \div ONE)

\* 1/cos(a) for the angles the IMU samples of this model take.
InvCos(a) ==
    CASE Abs(a) = 0    -> 1000
      [] Abs(a) = 100  -> 1005
      [] Abs(a) = 200  -> 1020
      [] Abs(a) = 300  -> 1047
      [] Abs(a) = 1500 -> 14137
      [] Abs(a) = 1600 -> -34247

Clamp(x, lo, hi) == IF x > hi THEN hi ELSE IF x < lo THEN lo ELSE x

Max4(e) ==
    LET m12 == IF e[1] > e[2] THEN e[1] ELSE e[2]
        m34 == IF e[3] > e[4] THEN e[3] ELSE e[4]
    IN  IF m12 > m34 THEN m12 ELSE m34

Zero4 == <<0, 0, 0, 0>>

(***************************************************************************)
(* The discrete PID filter of filter_lib.  A filter keeps its gain, its    *)
(* last input and its current output; march advances it one step,          *)
(* saturate clamps the output in place and zero clears the history.        *)
(***************************************************************************)
generatePID(kp) == [kp |-> kp, last_input |-> 0, current_output |-> 0]

zeroFilter(f) == [f EXCEPT !.last_input = 0, !.current_output = 0]

marchFilter(f, e) ==
    [f EXCEPT !.last_input = e, !.current_output = Mul(f.kp, e)]

saturateFilter(f, lo, hi) ==
    [f EXCEPT !.current_output = Clamp(f.current_output, lo, hi)]

FilterIsZero(f) == f.last_input = 0 /\ f.current_output = 0


(***************************************************************************)
(* State.                                                                  *)
(***************************************************************************)
VARIABLES
    state,              \* process lifecycle: get_state() / set_state()
    core_config,        \* settings loaded by load_core_config
    core_setpoint,      \* core_setpoint_t
    core_state,         \* core_state_t
    user_interface,     \* user_interface_t
    mpu,                \* last IMU sample read by mpu9150_read
    previous_core_mode, \* static local of flight_core
    core_pc,            \* position of the running flight_core call
    core_locals,        \* locals new_esc, u and i of the running flight_core call
    pwm,                \* last pulse sent on each of the four PWM channels
    stack_pc,           \* position of the flight_stack thread
    arm_i,              \* loop counter of the ESC wake-up pulses
    stack_ran,          \* the supervisor has looped since the clock last advanced
    safety_pc,          \* safety thread: "run" or "done"
    watcher_pc,         \* DSM2_watcher thread: "run" or "done"
    using_dsm2,         \* local of DSM2_watcher
    elapsed,            \* current_time - last_dsm2_time, tenths of a second
    polled,             \* the watcher has polled since the clock last advanced
    dsm2_new,           \* is_new_dsm2_data()
    pause_pc,           \* pause handler: "idle" or "held"
    pause_i,            \* loop counter of on_pause_press
    red, grn,           \* the two LEDs
    led_pc,             \* led_manager thread: "start", "run" or "done"
    toggle,             \* local of led_manager
    printf_pc,          \* printf thread: "run" or "done"
    main_pc,            \* main after the threads started: "wait" or "done"
    hist                \* history of the run, read by the properties only

vars == <<state, core_config, core_setpoint, core_state, user_interface, mpu,
          previous_core_mode, core_pc, core_locals, pwm, stack_pc, arm_i, stack_ran,
          safety_pc, watcher_pc, using_dsm2, elapsed, polled, dsm2_new, pause_pc,
          pause_i, red, grn, led_pc, toggle, printf_pc, main_pc, hist>>

coreVars   == <<core_state, mpu, previous_core_mode, core_pc, pwm>>
stackVars  == <<stack_pc, arm_i, stack_ran>>
radioVars  == <<watcher_pc, using_dsm2, elapsed, polled, dsm2_new>>
pauseVars  == <<pause_pc, pause_i>>
loopVars   == <<led_pc, toggle, printf_pc, main_pc>>

(***************************************************************************)
(* Settings read from the configuration file.  The file's content is an    *)
(* input of the program: unit proportional gains, a cascade gain of 4, an  *)
(* idle speed of 0.1, setpoint limits of 0.4 rad and 2 rad/s.              *)
(***************************************************************************)
Configs ==
    { [ idle_speed |-> 100, roll_rate_per_rad |-> 4000,
        pitch_rate_per_rad |-> 4000, max_roll_setpoint |-> 400,
        max_pitch_setpoint |-> 400, max_yaw_rate |-> 2000,
        Droll_KP |-> 1000, Dpitch_KP |-> 1000, yaw_KP |-> 1000 ] }

\* IMU trims of core_state: never written by the program.
imu_roll_err == 0
imu_pitch_err == 0

\* initialize_filters(): three PID controllers with cleared history.
initialize_filters(cs, cfg) ==
    [cs EXCEPT !.roll_ctrl  = zeroFilter(generatePID(cfg.Droll_KP)),
               !.pitch_ctrl = zeroFilter(generatePID(cfg.Dpitch_KP)),
               !.yaw_ctrl   = zeroFilter(generatePID(cfg.yaw_KP))]

\* The zero-initialised global core_state.
CoreStateZero ==
    [ roll |-> 0, pitch |-> 0, yaw |-> 0, last_yaw |-> 0,
      dRoll |-> 0, dPitch |-> 0, dYaw |-> 0,
      dRoll_err |-> 0, dPitch_err |-> 0, yaw_err |-> 0,
      roll_ctrl |-> generatePID(0), pitch_ctrl |-> generatePID(0),
      yaw_ctrl |-> generatePID(0),
      dRoll_err_integrator |-> 0, dPitch_err_integrator |-> 0,
      yaw_err_integrator |-> 0,
      control_u |-> Zero4, esc_out |-> Zero4,
      num_yaw_spins |-> 0, imu_yaw_on_takeoff |-> 0 ]

\* The zero-initialised global core_setpoint (DISARMED is the enum's 0).
CoreSetpointZero ==
    [ core_mode |-> "DISARMED", throttle |-> 0, roll |-> 0, pitch |-> 0,
      yaw_rate |-> 0, yaw |-> 0 ]

\* The zero-initialised global user_interface (EMERGENCY_KILL is the enum's 0).
UserInterfaceZero ==
    [ flight_mode |-> "EMERGENCY_KILL", throttle_stick |-> 0, yaw_stick |-> 0,
      roll_stick |-> 0, pitch_stick |-> 0, kill_switch |-> 0 ]

\* Lines 308-309 and 502: the locals of flight_core that outlive a step of
\* the output loop; every cycle writes them before it reads them.
LocalsZero == [ new_esc |-> << 0, 0, 0, 0 >>, u |-> << 0, 0, 0, 0 >>, i |-> 0 ]

MpuZero == [ fx |-> 0, fy |-> 0, fz |-> 0, gx |-> 0, gy |-> 0, gz |-> 0 ]

(***************************************************************************)
(* Bounds of the model.                                                    *)
(***************************************************************************)
\* The error integrators and the yaw setpoint grow without limit in flight;
\* a control cycle that would take one of them past the bound is not taken.
MaxIntegrator == 12
MaxYawSetpoint == 20

(***************************************************************************)
(* flight_core(): the attitude core, one call per IMU interrupt.           *)
(***************************************************************************)
\* raw gyro counts to rad/s: raw * GYRO_FSR * DEGREE_TO_RAD / 32767.
GyroRate(raw) ==
    LET p == raw * 34907
    IN  IF p >= 0 THEN p \div 32767 ELSE -((-p) \div 32767)

\* Lines 347-368: the yaw unwrap.  Gives <<spins, takeoff, last_yaw, yaw>>.
YawUnwrap(cs, fz, prev, mode) ==
    LET arming  == prev = "DISARMED" /\ mode # "DISARMED"
        spins0  == IF arming THEN 0 ELSE cs.num_yaw_spins
        takeoff == IF arming THEN fz ELSE cs.imu_yaw_on_takeoff
        new_yaw == -(fz - takeoff) + spins0 * TWO_PI
        spins1  == IF new_yaw - cs.last_yaw > YAW_JUMP THEN spins0 - 1
                   ELSE IF new_yaw - cs.last_yaw < -YAW_JUMP THEN spins0 + 1
                   ELSE spins0
    IN  [ num_yaw_spins |-> spins1, imu_yaw_on_takeoff |-> takeoff,
          last_yaw |-> cs.yaw, yaw |-> -(fz - takeoff) + spins1 * TWO_PI ]

\* History: a cycle that starts while the arming gate is closed (a disarm has
\* been called and no arming sequence has completed since), and a
\* tip-over measured between the first and the last observation of the
\* arming sequence.
HistSense(h, cs) ==
    [h EXCEPT !.cycleClosed = h.closed,
              !.armTip = @ \/ (h.armObs \in 1..5 /\
                                 (Abs(cs.roll) > ARM_TIP_THRESHOLD \/
                                  Abs(cs.pitch) > ARM_TIP_THRESHOLD))]

\* Lines 315-368: read the IMU and estimate the state.  With `track` the
\* history records whether the cycle is the first since the core was armed.
CoreSenseTracked(Samples, track) ==
    /\ core_pc = "idle"
    /\ \E m \in Samples :
         LET y == YawUnwrap(core_state, m.fz, previous_core_mode,
                            core_setpoint.core_mode)
         IN  /\ mpu' = m
             /\ core_state' =
                  [core_state EXCEPT
                     !.roll   = -(m.fy - imu_roll_err),
                     !.pitch  = m.fx - imu_pitch_err,
                     !.dRoll  = GyroRate(m.gy),
                     !.dPitch = GyroRate(m.gx),
                     !.dYaw   = GyroRate(m.gz),
                     !.num_yaw_spins = y.num_yaw_spins,
                     !.imu_yaw_on_takeoff = y.imu_yaw_on_takeoff,
                     !.last_yaw = y.last_yaw,
                     !.yaw = y.yaw]
    /\ core_pc' = "dispatch"
    /\ hist' = [HistSense(hist, core_state') EXCEPT
                  !.firstArmed = /\ track
                                 /\ previous_core_mode = "DISARMED"
                                 /\ core_setpoint.core_mode # "DISARMED"]
    /\ UNCHANGED <<loopVars, core_locals, state, core_config, core_setpoint, user_interface,
                   previous_core_mode, pwm, stackVars, safety_pc, radioVars,
                   pauseVars, red, grn>>

CoreSenseFrom(Samples) == CoreSenseTracked(Samples, FALSE)

\* A mixer whose second motor takes the roll component with the other sign.
MixRollFlipped(u) ==
    << u[1] - u[2] + u[3] - u[4],
       u[1] - u[2] - u[3] - u[4],
       u[1] + u[2] + u[3] + u[4],
       u[1] - u[2] - u[3] + u[4] >>

\* Lines 504-507: the X mixer.
Mix(u) ==
    << u[1] - u[2] + u[3] - u[4],
       u[1] + u[2] - u[3] - u[4],
       u[1] + u[2] + u[3] + u[4],
       u[1] - u[2] - u[3] + u[4] >>

\* A headroom step that leaves the mixer output alone.
HeadroomNone(e) == e

\* Lines 513-531: reduce all outputs evenly when the largest exceeds 1.
Headroom(e) ==
    LET largest_value == IF Max4(e) > 0 THEN Max4(e) ELSE 0
        offset == largest_value - ONE
    IN  IF largest_value > ONE
        THEN << e[1] - offset, e[2] - offset, e[3] - offset, e[4] - offset >>
        ELSE e

\* A clamp that lacks the lower limit.
ClampEscUpperOnly(x) == IF x > ONE THEN ONE ELSE x

\* Lines 549-554: the clamp of one ESC value before it is sent.
ClampEsc(x) == IF x > ONE THEN ONE ELSE IF x < 0 THEN 0 ELSE x

\* Lines 462-469, 487-492: the saturation window of the controllers.
Window(throttle, flying) ==
    IF throttle < LAND_THROTTLE THEN LAND_SATURATION ELSE flying

\* Lines 425-432: the throttle controller, u[0].
ThrottleControl(cs, sp, cfg) ==
    LET throttle_compensation == Mul(InvCos(cs.roll), InvCos(cs.pitch))
        thr == Mul(sp.throttle, MAX_THRUST_COMPONENT - cfg.idle_speed)
                 + cfg.idle_speed
    IN  Mul(throttle_compensation, thr)

\* An integrator gate that is always open.
AirborneAlways(u0) == TRUE

\* Lines 452 and 481: the integrators run only when airborne.
Airborne(u0) == u0 > INT_CUTOFF_TH

\* Lines 417-531: the feedback controllers, with the setpoint sp (its yaw
\* already advanced).  Gives the new core_state fields and the mixer output.
Controllers(cs, sp, cfg) ==
    LET u0  == ThrottleControl(cs, sp, cfg)
        dRoll_setpoint  == Mul(sp.roll - cs.roll, cfg.roll_rate_per_rad)
        dPitch_setpoint == Mul(sp.pitch - cs.pitch, cfg.pitch_rate_per_rad)
        dRoll_err  == dRoll_setpoint - cs.dRoll
        dPitch_err == dPitch_setpoint - cs.dPitch
        yaw_err    == sp.yaw - cs.yaw
        airborne   == Airborne(u0)
        roll_ctrl  == saturateFilter(marchFilter(cs.roll_ctrl, dRoll_err),
                         -Window(sp.throttle, MAX_ROLL_COMPONENT),
                          Window(sp.throttle, MAX_ROLL_COMPONENT))
        pitch_ctrl == saturateFilter(marchFilter(cs.pitch_ctrl, dPitch_err),
                         -Window(sp.throttle, MAX_PITCH_COMPONENT),
                          Window(sp.throttle, MAX_PITCH_COMPONENT))
        yaw_ctrl   == saturateFilter(marchFilter(cs.yaw_ctrl, yaw_err),
                         -Window(sp.throttle, MAX_YAW_COMPONENT),
                          Window(sp.throttle, MAX_YAW_COMPONENT))
        u == << u0, roll_ctrl.current_output, pitch_ctrl.current_output,
                yaw_ctrl.current_output >>
    IN  [ cs |-> [cs EXCEPT
                    !.dRoll_err = dRoll_err,
                    !.dPitch_err = dPitch_err,
                    !.yaw_err = yaw_err,
                    !.dRoll_err_integrator =
                        IF airborne THEN @ + Mul(dRoll_err, DT) ELSE @,
                    !.dPitch_err_integrator =
                        IF airborne THEN @ + Mul(dPitch_err, DT) ELSE @,
                    !.yaw_err_integrator =
                        IF airborne THEN @ + Mul(yaw_err, DT) ELSE @,
                    !.roll_ctrl = roll_ctrl,
                    !.pitch_ctrl = pitch_ctrl,
                    !.yaw_ctrl = yaw_ctrl],
          u |-> u,
          new_esc |-> Headroom(Mix(u)) ]

\* Lines 397-410: the DISARMED arm of the mode dispatch.
CoreDisarmedReset(cs) ==
    [cs EXCEPT !.dRoll_err_integrator = 0,
               !.dPitch_err_integrator = 0,
               !.yaw_err_integrator = 0,
               !.roll_ctrl = zeroFilter(@),
               !.pitch_ctrl = zeroFilter(@),
               !.esc_out = Zero4]

\* Lines 389-395: the ATTITUDE arm advances the yaw setpoint when flying.
AdvanceYaw(sp) ==
    IF sp.core_mode = "ATTITUDE" /\ sp.throttle > YAW_CUTOFF_TH
    THEN [sp EXCEPT !.yaw = @ + Mul(DT, sp.yaw_rate)]
    ELSE sp

WithinBounds(cs, sp) ==
    /\ Abs(cs.dRoll_err_integrator) <= MaxIntegrator
    /\ Abs(cs.dPitch_err_integrator) <= MaxIntegrator
    /\ Abs(cs.yaw_err_integrator) <= MaxIntegrator
    /\ Abs(sp.yaw) <= MaxYawSetpoint

\* An output stage that sends the mixer output whatever the previous mode.
PulsesAlways(prev, out) == out

\* Lines 542-556: the pulses of a cycle that ran the controllers: the minimum
\* pulse when the previous mode was DISARMED, else the clamped mixer output.
Pulses(prev, out) == IF prev = "DISARMED" THEN Zero4 ELSE out

\* Lines 374-559: mode dispatch, controllers, mixer and ESC output.
CoreControl ==
    /\ core_pc = "dispatch"
    /\ IF core_setpoint.core_mode = "DISARMED"
       THEN /\ core_state' = CoreDisarmedReset(core_state)
            /\ core_setpoint' = [core_setpoint EXCEPT !.yaw = 0]
            /\ previous_core_mode' = "DISARMED"
            /\ core_pc' = "idle"
            /\ UNCHANGED pwm
       ELSE LET sp == AdvanceYaw(core_setpoint)
                c  == Controllers(core_state, sp, core_config)
                out == << ClampEsc(c.new_esc[1]), ClampEsc(c.new_esc[2]),
                          ClampEsc(c.new_esc[3]), ClampEsc(c.new_esc[4]) >>
            IN  /\ WithinBounds(c.cs, sp)
                /\ core_setpoint' = sp
                /\ pwm' = Pulses(previous_core_mode, out)
                /\ core_state' = IF previous_core_mode = "DISARMED"
                                 THEN c.cs
                                 ELSE [c.cs EXCEPT !.esc_out = out,
                                                   !.control_u = c.u]
                /\ core_pc' = "finish"
                /\ UNCHANGED previous_core_mode
    /\ UNCHANGED <<loopVars, core_locals, state, core_config, user_interface, mpu, stackVars,
                   safety_pc, radioVars, pauseVars, red, grn, hist>>

\* Lines 561-584: log the cycle and remember the mode.
CoreFinish ==
    /\ core_pc = "finish"
    /\ previous_core_mode' = core_setpoint.core_mode
    /\ core_pc' = "idle"
    /\ UNCHANGED <<loopVars, core_locals, state, core_config, core_setpoint, core_state,
                   user_interface, mpu, pwm, stackVars, safety_pc, radioVars,
                   pauseVars, red, grn, hist>>


\* A disarm that also cuts the throttle setpoint.
DisarmAndCutThrottle(sp) ==
    [sp EXCEPT !.core_mode = "DISARMED", !.throttle = 0]

(***************************************************************************)
(* disarm(), lines 745-753: the mode and the two LEDs after the call.      *)
(***************************************************************************)
DisarmedSetpoint(sp) == [sp EXCEPT !.core_mode = "DISARMED"]

\* The caller `who` has called disarm(): the arming gate is closed.
HistDisarm(h, who) ==
    [h EXCEPT !.closed = TRUE, !.who = who, !.fresh = FALSE]

Tipped(cs, limit) == Abs(cs.roll) > limit \/ Abs(cs.pitch) > limit

(***************************************************************************)
(* flight_stack(): the flight-mode supervisor.                             *)
(***************************************************************************)
\* Lines 604-616: the loop test and the kill check.
StackLoop ==
    /\ stack_pc = "loop"
    /\ stack_ran' = TRUE
    /\ IF state = "EXITING"
       THEN /\ stack_pc' = "done"
            /\ UNCHANGED <<core_setpoint, red, grn, hist>>
       ELSE /\ stack_pc' = "check"
            /\ IF \/ user_interface.flight_mode = "EMERGENCY_KILL"
                  \/ user_interface.kill_switch # 0
               THEN /\ core_setpoint' = DisarmedSetpoint(core_setpoint)
                    /\ red' = 1
                    /\ grn' = 0
                    /\ hist' = HistDisarm(hist, "stack")
               ELSE UNCHANGED <<core_setpoint, red, grn, hist>>
    /\ UNCHANGED <<loopVars, core_locals, state, core_config, user_interface, coreVars, arm_i,
                   safety_pc, radioVars, pauseVars>>

\* Line 619: has the core been disarmed?
StackCheck ==
    /\ stack_pc = "check"
    /\ stack_pc' = IF core_setpoint.core_mode = "DISARMED"
                   THEN "arm_level" ELSE "translate"
    /\ hist' = IF core_setpoint.core_mode = "DISARMED"
               THEN [hist EXCEPT !.armObs = 0, !.armTip = FALSE]
               ELSE hist
    /\ UNCHANGED <<loopVars, core_locals, state, core_config, core_setpoint, user_interface,
                   coreVars, arm_i, stack_ran, safety_pc, radioVars, pauseVars,
                   red, grn>>

\* Lines 628-667: translate the user's flight mode into a setpoint.
Translate(sp, ui, cfg) ==
    CASE ui.flight_mode = "USER_ATTITUDE" ->
           [sp EXCEPT !.core_mode = "ATTITUDE",
                      !.throttle = (ui.throttle_stick + ONE) \div 2,
                      !.roll = Mul(ui.roll_stick, cfg.max_roll_setpoint),
                      !.pitch = Mul(ui.pitch_stick, cfg.max_pitch_setpoint),
                      !.yaw_rate = Mul(ui.yaw_stick, cfg.max_yaw_rate)]
      [] ui.flight_mode = "EMERGENCY_LAND" ->
           [sp EXCEPT !.core_mode = "ATTITUDE",
                      !.throttle = EMERGENCY_LAND_THR,
                      !.roll = 0, !.pitch = 0, !.yaw_rate = 0]
      [] OTHER -> sp

StackTranslate ==
    /\ stack_pc = "translate"
    /\ core_setpoint' = Translate(core_setpoint, user_interface, core_config)
    /\ stack_pc' = "loop"
    /\ hist' = [hist EXCEPT
                  !.fresh = @ \/ user_interface.flight_mode \in
                                   {"USER_ATTITUDE", "EMERGENCY_LAND"}]
    /\ UNCHANGED <<loopVars, core_locals, state, core_config, core_state,
                   user_interface, mpu, previous_core_mode, core_pc, pwm,
                   arm_i, stack_ran, safety_pc, radioVars, pauseVars, red, grn>>

(***************************************************************************)
(* wait_for_arming_sequence(), lines 683-738.  Each wait loop is one       *)
(* action per test of its condition: while the condition holds the thread  *)
(* sleeps and returns early when the lifecycle is EXITING.                 *)
(***************************************************************************)
\* A wait loop that does not look at the lifecycle.
ArmWaitForever(here, waiting, next, obs) ==
    /\ stack_pc = here
    /\ IF waiting
       THEN UNCHANGED <<stack_pc, hist>>
       ELSE /\ stack_pc' = next
            /\ hist' = [hist EXCEPT !.armObs = obs]
    /\ UNCHANGED <<loopVars, core_locals, state, core_config, core_setpoint, user_interface,
                   coreVars, arm_i, stack_ran, safety_pc, radioVars, pauseVars,
                   red, grn>>

\* One test of a wait loop whose condition is `waiting`.
ArmWait(here, waiting, next, obs) ==
    /\ stack_pc = here
    /\ IF waiting
       THEN /\ stack_pc' = IF state = "EXITING" THEN "loop" ELSE here
            /\ UNCHANGED hist
       ELSE /\ stack_pc' = next
            /\ hist' = [hist EXCEPT !.armObs = obs]
    /\ UNCHANGED <<loopVars, core_locals, state, core_config, core_setpoint, user_interface,
                   coreVars, arm_i, stack_ran, safety_pc, radioVars, pauseVars,
                   red, grn>>

\* Lines 687-691: wait for a level vehicle.
ArmLevel ==
    ArmWait("arm_level", Tipped(core_state, ARM_TIP_THRESHOLD), "arm_kill", 1)

\* Lines 693-696: wait for the kill switch to be released.
ArmKill ==
    ArmWait("arm_kill", user_interface.kill_switch # 0, "arm_down1", 2)

\* Lines 699-701: wait for throttle down.
ArmDown1 ==
    ArmWait("arm_down1", user_interface.throttle_stick > -STICK_LIMIT,
            "arm_up", 3)

\* Lines 704-706: wait for throttle up.
ArmUp ==
    ArmWait("arm_up", user_interface.throttle_stick < STICK_LIMIT,
            "arm_down2", 4)

\* Lines 709-712: wait for throttle down again.
ArmDown2 ==
    ArmWait("arm_down2", user_interface.throttle_stick > -STICK_LIMIT,
            "arm_level2", 5)

\* A sequence that arms without the last look at the attitude.
ArmLevel2NoCheck ==
    /\ stack_pc = "arm_level2"
    /\ stack_pc' = "arm_wake"
    /\ hist' = [hist EXCEPT !.armObs = 6]
    /\ arm_i' = 0
    /\ UNCHANGED <<loopVars, core_locals, state, core_config, core_setpoint, user_interface,
                   coreVars, stack_ran, safety_pc, radioVars, pauseVars, red,
                   grn>>

\* Lines 714-718: restart when the vehicle is not level.
ArmLevel2 ==
    /\ stack_pc = "arm_level2"
    /\ IF Tipped(core_state, ARM_TIP_THRESHOLD)
       THEN /\ stack_pc' = "arm_level"
            /\ hist' = [hist EXCEPT !.armObs = 0, !.armTip = FALSE]
            /\ UNCHANGED arm_i
       ELSE /\ stack_pc' = "arm_wake"
            /\ hist' = [hist EXCEPT !.armObs = 6]
            /\ arm_i' = 0
    /\ UNCHANGED <<loopVars, core_locals, state, core_config, core_setpoint, user_interface,
                   coreVars, stack_ran, safety_pc, radioVars, pauseVars, red,
                   grn>>

\* Lines 722-728: ten rounds of minimum pulses on the four channels.
ArmWake ==
    /\ stack_pc = "arm_wake"
    /\ IF arm_i < ARM_PULSES
       THEN /\ pwm' = Zero4
            /\ arm_i' = arm_i + 1
            /\ UNCHANGED stack_pc
       ELSE /\ stack_pc' = "arm_load"
            /\ UNCHANGED <<pwm, arm_i>>
    /\ UNCHANGED <<loopVars, core_locals, state, core_config, core_setpoint, core_state,
                   user_interface, mpu, previous_core_mode, core_pc,
                   stack_ran, safety_pc, radioVars, pauseVars, red, grn, hist>>

\* Lines 730-737: reload the settings, restart the filters, arm.
ArmCompleteFrom(Files) ==
    /\ stack_pc = "arm_load"
    /\ \E cfg \in Files :
         /\ core_config' = cfg
         /\ core_state' = initialize_filters(core_state, cfg)
    /\ core_setpoint' = [core_setpoint EXCEPT !.core_mode = "ATTITUDE"]
    /\ red' = 0
    /\ stack_pc' = "loop"
    /\ hist' = [hist EXCEPT !.closed = FALSE, !.cycleClosed = FALSE,
                            !.who = "armed", !.led = "none",
                            !.fresh = FALSE]
    /\ UNCHANGED <<loopVars, core_locals, state, user_interface, mpu, previous_core_mode, core_pc,
                   pwm, arm_i, stack_ran, safety_pc, radioVars, pauseVars,
                   grn>>

ArmComplete == ArmCompleteFrom(Configs)

(***************************************************************************)
(* safety_thread_func(), lines 815-829: one action per loop iteration.     *)
(***************************************************************************)
\* A watchdog that disarms an armed core whatever its attitude.
SafetyTickAlways ==
    /\ safety_pc = "run"
    /\ state # "EXITING"
    /\ core_setpoint.core_mode # "DISARMED"
    /\ core_setpoint' = DisarmedSetpoint(core_setpoint)
    /\ red' = 1
    /\ grn' = 0
    /\ hist' = HistDisarm(hist, "safety")
    /\ UNCHANGED <<loopVars, core_locals, state, core_config, user_interface, coreVars, stackVars,
                   safety_pc, radioVars, pauseVars>>

SafetyTick ==
    /\ safety_pc = "run"
    /\ IF state = "EXITING"
       THEN /\ safety_pc' = "done"
            /\ UNCHANGED <<core_setpoint, red, grn, hist>>
       ELSE /\ UNCHANGED safety_pc
            /\ IF /\ core_setpoint.core_mode # "DISARMED"
                  /\ Tipped(core_state, TIP_THRESHOLD)
               THEN /\ core_setpoint' = DisarmedSetpoint(core_setpoint)
                    /\ red' = 1
                    /\ grn' = 0
                    /\ hist' = HistDisarm(hist, "safety")
               ELSE UNCHANGED <<core_setpoint, red, grn, hist>>
    /\ UNCHANGED <<loopVars, core_locals, state, core_config, user_interface, coreVars, stackVars,
                   radioVars, pauseVars>>


(***************************************************************************)
(* DSM2_watcher(), lines 837-918: one action per loop iteration.  A frame  *)
(* is the six normalised channels the receiver reports.                    *)
(***************************************************************************)
\* A decoder whose mode switch, channel 6, selects a second flight mode.
DecodeFrameModeSwitch(ui, f) ==
    [ui EXCEPT !.kill_switch = 0,
               !.throttle_stick = f.ch1,
               !.roll_stick = -f.ch2,
               !.pitch_stick = -f.ch3,
               !.yaw_stick = f.ch4,
               !.flight_mode = IF f.ch6 > 0 THEN "USER_ATTITUDE"
                               ELSE "USER_LOITER"]

\* Lines 863-881: decode a frame whose kill switch is released.
DecodeFrame(ui, f) ==
    [ui EXCEPT !.kill_switch = 0,
               !.throttle_stick = f.ch1,
               !.roll_stick = -f.ch2,
               !.pitch_stick = -f.ch3,
               !.yaw_stick = f.ch4,
               !.flight_mode = IF f.ch6 > 0 THEN "USER_ATTITUDE"
                               ELSE "USER_ATTITUDE"]

\* Lines 903-907: the user inputs of an emergency landing.
EmergencyLand(ui) ==
    [ui EXCEPT !.flight_mode = "EMERGENCY_LAND",
               !.throttle_stick = -ONE,
               !.roll_stick = 0,
               !.pitch_stick = 0,
               !.yaw_stick = 0]

\* Line 888: timeout_secs is a float.  The elapsed time, computed in double
\* precision, is rounded to the nearest number of 24 significant bits (ties
\* to even).  Floats are counted here in units of 2^-25 s, the spacing of
\* the floats around 0.3; a shorter time is rounded to that unit.
FloatUnit == 2^25

RECURSIVE Quantum(_)
Quantum(v) == IF v < 2^24 THEN 1 ELSE 2 * Quantum(v \div 2)

RoundToEven(n, d) ==
    LET q == n \div d
        r == n % d
    IN  IF 2 * r > d \/ (2 * r = d /\ q % 2 = 1) THEN q + 1 ELSE q

ToFloat(t) ==
    LET n == t * FloatUnit
        q == Quantum(n \div 10)
    IN  q * RoundToEven(n, 10 * q)

\* timeout_secs > limit, the limit being a double constant of `limit` tenths.
Exceeds(timeout_secs, limit) == timeout_secs * 10 > limit * FloatUnit

\* Time-out tests that fire a tenth of a second late, a landing test that
\* waits for the disarm time-out, and one that forgets the flight mode.
DisarmTimeoutLate(sp, t) ==
    sp.core_mode # "DISARMED" /\ Exceeds(ToFloat(t), DSM2_DISARM_TIMEOUT + 1)

LandTimeoutAfterDisarm(ui, t) ==
    ui.flight_mode # "EMERGENCY_LAND"
      /\ Exceeds(ToFloat(t), DSM2_DISARM_TIMEOUT)

LandTimeoutAnyMode(ui, t) == Exceeds(ToFloat(t), DSM2_LAND_TIMEOUT)

\* Lines 892-893 and 899-900: the two time-out tests.
DisarmTimeout(sp, t) ==
    sp.core_mode # "DISARMED" /\ Exceeds(ToFloat(t), DSM2_DISARM_TIMEOUT)

LandTimeout(ui, t) ==
    ui.flight_mode # "EMERGENCY_LAND" /\ Exceeds(ToFloat(t), DSM2_LAND_TIMEOUT)

\* History: a frame starts a new episode of the radio link.
HistFrame(h) == [h EXCEPT !.frames = TRUE, !.lands = 0, !.tmo = FALSE]

WatcherPollFrom(Frames) ==
    /\ watcher_pc = "run"
    /\ IF state = "EXITING"
       THEN /\ watcher_pc' = "done"
            /\ UNCHANGED <<core_setpoint, user_interface, using_dsm2, elapsed,
                           polled, dsm2_new, red, grn, hist>>
       ELSE /\ UNCHANGED watcher_pc
            /\ polled' = TRUE
            /\ IF dsm2_new
               THEN \* case 1: a new frame
                    /\ using_dsm2' = TRUE
                    /\ elapsed' = 0
                    /\ dsm2_new' = FALSE
                    /\ \E f \in Frames :
                         IF f.ch5 < 0
                         THEN /\ user_interface' =
                                   [user_interface EXCEPT !.kill_switch = 1]
                              /\ core_setpoint' = DisarmedSetpoint(core_setpoint)
                              /\ red' = 1
                              /\ grn' = 0
                              /\ hist' = HistFrame(HistDisarm(hist, "kill"))
                         ELSE /\ user_interface' = DecodeFrame(user_interface, f)
                              /\ hist' = HistFrame(hist)
                              /\ UNCHANGED <<core_setpoint, red, grn>>
               ELSE \* case 0: no new data, check for time-outs
                    /\ UNCHANGED <<using_dsm2, elapsed, dsm2_new>>
                    /\ IF ~using_dsm2
                       THEN UNCHANGED <<core_setpoint, user_interface, red,
                                        grn, hist>>
                       ELSE IF DisarmTimeout(core_setpoint, elapsed)
                       THEN /\ core_setpoint' = DisarmedSetpoint(core_setpoint)
                            /\ red' = 1
                            /\ grn' = 0
                            /\ hist' = [HistDisarm(hist, "timeout") EXCEPT
                                           !.tmo = TRUE]
                            /\ UNCHANGED user_interface
                       ELSE IF LandTimeout(user_interface, elapsed)
                       THEN /\ user_interface' = EmergencyLand(user_interface)
                            /\ hist' = [hist EXCEPT !.lands = @ + 1]
                            /\ UNCHANGED <<core_setpoint, red, grn>>
                       ELSE UNCHANGED <<core_setpoint, user_interface, red,
                                        grn, hist>>
    /\ UNCHANGED <<loopVars, core_locals, state, core_config, coreVars, stackVars, safety_pc,
                   pauseVars>>

\* The receiver has decoded a frame: is_new_dsm2_data() answers 1.
FrameArrive ==
    /\ ~dsm2_new
    /\ dsm2_new' = TRUE
    /\ UNCHANGED <<loopVars, core_locals, state, core_config, core_setpoint, user_interface,
                   coreVars, stackVars, safety_pc, watcher_pc, using_dsm2,
                   elapsed, polled, pauseVars, red, grn, hist>>

(***************************************************************************)
(* The clock.  The watcher loop sleeps 10 ms a round, so it polls at least *)
(* once in every tenth of a second.  The clock is only ever compared with  *)
(* the two time-outs: it advances by one tenth, and crosses the stretch    *)
(* between the time-outs, where no comparison changes, in one step.        *)
(***************************************************************************)
MaxElapsed == 52

NextTime(t) ==
    IF t = DSM2_LAND_TIMEOUT + 1 THEN DSM2_DISARM_TIMEOUT - 1 ELSE t + 1

\* The supervisor sleeps 10 ms a round of its loop, 100 ms a round of a wait
\* of the arming sequence and 50 ms for the wake-up pulses: when the clock
\* advances it has looped, or it sleeps in a wait whose condition holds.
StackIdle ==
    \/ stack_pc = "done"
    \/ stack_pc = "loop" /\ stack_ran
    \/ stack_pc = "arm_level" /\ Tipped(core_state, ARM_TIP_THRESHOLD)
    \/ stack_pc = "arm_kill" /\ user_interface.kill_switch # 0
    \/ stack_pc \in {"arm_down1", "arm_down2"}
          /\ user_interface.throttle_stick > -STICK_LIMIT
    \/ stack_pc = "arm_up" /\ user_interface.throttle_stick < STICK_LIMIT

Tick ==
    /\ using_dsm2
    /\ watcher_pc = "run" => polled
    /\ StackIdle
    /\ elapsed < MaxElapsed
    /\ elapsed' = NextTime(elapsed)
    /\ polled' = FALSE
    /\ stack_ran' = FALSE
    /\ UNCHANGED <<loopVars, core_locals, state, core_config, core_setpoint, user_interface,
                   coreVars, stack_pc, arm_i, safety_pc, watcher_pc,
                   using_dsm2, dsm2_new, pauseVars, red, grn, hist>>

(***************************************************************************)
(* on_pause_press(), lines 762-775.                                        *)
(***************************************************************************)
\* Lines 763-764: the button goes down and the handler disarms.
PausePress ==
    /\ pause_pc = "idle"
    /\ state # "EXITING"
    /\ core_setpoint' = DisarmedSetpoint(core_setpoint)
    /\ red' = 1
    /\ grn' = 0
    /\ hist' = HistDisarm(hist, "pause")
    /\ pause_i' = 0
    /\ pause_pc' = "held"
    /\ UNCHANGED <<loopVars, core_locals, state, core_config, user_interface, coreVars, stackVars,
                   safety_pc, radioVars>>

\* A handler that exits at the first poll that finds the button pressed.
PausePollEager(Levels) ==
    /\ pause_pc = "held"
    /\ \E level \in Levels :
         IF level = "LOW"
         THEN /\ pause_pc' = "idle"
              /\ UNCHANGED <<pause_i, state>>
         ELSE /\ pause_i' = pause_i + 1
              /\ pause_pc' = "idle"
              /\ state' = "EXITING"
    /\ UNCHANGED <<loopVars, core_locals, core_config, core_setpoint, user_interface,
                   coreVars, stackVars, safety_pc, radioVars, red, grn, hist>>

\* Lines 765-774: one round of the loop, the button read being `level`.
PausePollFrom(Levels) ==
    /\ pause_pc = "held"
    /\ \E level \in Levels :
         IF level = "LOW"
         THEN /\ pause_pc' = "idle"
              /\ UNCHANGED <<pause_i, state>>
         ELSE IF pause_i + 1 < PAUSE_POLLS
         THEN /\ pause_i' = pause_i + 1
              /\ UNCHANGED <<pause_pc, state>>
         ELSE /\ pause_i' = pause_i + 1
              /\ pause_pc' = "idle"
              /\ state' = "EXITING"
    /\ UNCHANGED <<loopVars, core_locals, core_config, core_setpoint, user_interface, coreVars,
                   stackVars, safety_pc, radioVars, red, grn, hist>>

(***************************************************************************)
(* Initial state: the globals are zero-initialised, main() has called      *)
(* disarm(), loaded the settings and started the filters, the threads are  *)
(* about to run.  using_dsm2 and last_dsm2_time are uninitialised locals   *)
(* of DSM2_watcher: any value.                                             *)
(***************************************************************************)
GarbageElapsed == {0, DSM2_LAND_TIMEOUT + 1, DSM2_DISARM_TIMEOUT + 1}

HistZero ==
    [ closed |-> TRUE, who |-> "main", cycleClosed |-> TRUE,
      armObs |-> 0, armTip |-> FALSE, frames |-> FALSE, lands |-> 0,
      tmo |-> FALSE, led |-> "none", escBefore |-> << 0, 0, 0, 0 >>,
      fresh |-> FALSE, firstArmed |-> FALSE ]

Init ==
    /\ state = "RUNNING"
    /\ core_config \in Configs
    /\ core_setpoint = CoreSetpointZero
    /\ core_state = initialize_filters(CoreStateZero, core_config)
    /\ user_interface = UserInterfaceZero
    /\ mpu = MpuZero
    /\ previous_core_mode = "DISARMED"
    /\ core_pc = "idle"
    /\ core_locals = LocalsZero
    /\ pwm = Zero4
    /\ stack_pc = "loop"
    /\ arm_i = 0
    /\ stack_ran = FALSE
    /\ safety_pc = "run"
    /\ watcher_pc = "run"
    /\ using_dsm2 \in BOOLEAN
    /\ elapsed \in GarbageElapsed
    /\ polled = FALSE
    /\ dsm2_new = FALSE
    /\ pause_pc = "idle"
    /\ pause_i = 0
    /\ red = 1
    /\ grn = 0
    /\ led_pc = "start"
    /\ toggle = FALSE
    /\ printf_pc = "run"
    /\ main_pc = "wait"
    /\ hist = HistZero

(***************************************************************************)
(* The flight system with a steady radio link: the attitude core, the      *)
(* supervisor, the safety watchdog, the radio watcher and momentary        *)
(* presses of the pause button.                                            *)
(***************************************************************************)
\* IMU samples: level, or rolled past both tip limits.
SysSamples ==
    { [ fx |-> 0, fy |-> r, fz |-> 0, gx |-> 0, gy |-> 0, gz |-> 0 ] :
        r \in {0, -1600} }

\* Radio frames: throttle down or up, kill switch released or hit.
SysFrames ==
    { [ ch1 |-> t, ch2 |-> 0, ch3 |-> 0, ch4 |-> 0, ch5 |-> k, ch6 |-> ONE ] :
        t \in {-ONE, ONE}, k \in {-ONE, ONE} }

CoreSense == CoreSenseFrom(SysSamples)
WatcherPoll == WatcherPollFrom(SysFrames)
PausePoll == PausePollFrom({"LOW"})

Next ==
    \/ CoreSense \/ CoreControl \/ CoreFinish
    \/ StackLoop \/ StackCheck \/ StackTranslate
    \/ ArmLevel \/ ArmKill \/ ArmDown1 \/ ArmUp \/ ArmDown2 \/ ArmLevel2
    \/ ArmWake \/ ArmComplete
    \/ SafetyTick
    \/ WatcherPoll \/ FrameArrive
    \/ PausePress \/ PausePoll

Spec == Init /\ [][Next]_vars

(***************************************************************************)
(* The radio link with losses of signal: the radio watcher and its clock,  *)
(* the supervisor that arms the core, and momentary presses of the pause   *)
(* button, which disarm as the safety watchdog does.  The vehicle stays    *)
(* level.                                                                  *)
(***************************************************************************)
NextRadio ==
    \/ StackLoop \/ StackCheck \/ StackTranslate
    \/ ArmLevel \/ ArmKill \/ ArmDown1 \/ ArmUp \/ ArmDown2 \/ ArmLevel2
    \/ ArmWake \/ ArmComplete
    \/ WatcherPoll \/ FrameArrive \/ Tick
    \/ PausePress \/ PausePoll

\* The steps of the supervisor thread.
StackStep ==
    \/ StackLoop \/ StackCheck \/ StackTranslate
    \/ ArmLevel \/ ArmKill \/ ArmDown1 \/ ArmUp \/ ArmDown2 \/ ArmLevel2
    \/ ArmWake \/ ArmComplete

\* The threads are scheduled and the clock never stops while the program
\* runs.
SpecRadio ==
    /\ Init /\ [][NextRadio]_vars
    /\ WF_vars(WatcherPoll) /\ WF_vars(StackStep) /\ SF_vars(Tick)

(***************************************************************************)
(* The attitude core alone, for every setpoint and measured state of a     *)
(* grid: the setpoint is rewritten between any two steps of the core, as   *)
(* the supervisor and disarm() do.                                         *)
(***************************************************************************)
CoreSamples ==
    { [ fx |-> p, fy |-> r, fz |-> z, gx |-> 0, gy |-> g, gz |-> 0 ] :
        p \in {0}, r \in {0, -300, -1600}, g \in {0}, z \in {0} }

CoreSetpoints ==
    { [ core_mode |-> m, throttle |-> t, roll |-> r, pitch |-> 0,
        yaw_rate |-> y, yaw |-> 0 ] :
        m \in {"DISARMED", "ATTITUDE"}, t \in {0, 1000},
        r \in {0}, y \in {0, 2000} }

\* A write of the setpoint by another task; the core owns the yaw setpoint.
SetpointWrite ==
    /\ \E sp \in CoreSetpoints :
         core_setpoint' = [sp EXCEPT !.yaw = core_setpoint.yaw]
    /\ core_setpoint' # core_setpoint
    /\ UNCHANGED <<loopVars, core_locals, state, core_config, user_interface, coreVars, stackVars,
                   safety_pc, radioVars, pauseVars, red, grn, hist>>

CoreSenseGrid == CoreSenseFrom(CoreSamples)

InitCore ==
    /\ Init
    /\ using_dsm2 = FALSE
    /\ elapsed = 0

NextCore == CoreSenseGrid \/ CoreControl \/ CoreFinish \/ SetpointWrite

SpecCore == InitCore /\ [][NextCore]_vars

(***************************************************************************)
(* Properties.                                                             *)
(***************************************************************************)
Armed == core_setpoint.core_mode # "DISARMED"

InUnitRange(e) == \A i \in 1..4 : e[i] >= 0 /\ e[i] <= ONE

\* C1: every value the attitude core sends to the PWM driver and every value
\* it stores in esc_out lies in [0,1], in every control cycle and every core
\* mode, for every setpoint and measured state.
C1_EscInUnitRange == InUnitRange(pwm) /\ InUnitRange(core_state.esc_out)

\* An armed cycle has just sent its outputs: the mixer asked for a negative
\* value on a motor, which went out and was stored as 0.
C1_ClampedCycle ==
    /\ core_pc = "finish"
    /\ previous_core_mode # "DISARMED"
    /\ LET c == Controllers(core_state, core_setpoint, core_config)
       IN  \E i \in 1..4 :
               c.new_esc[i] < 0 /\ pwm[i] = 0 /\ core_state.esc_out[i] = 0

\* C2: in every reachable state in which the core mode is DISARMED, the four
\* esc_out values are 0 and the state of the roll-rate, pitch-rate and yaw
\* filters is zero.
C2_DisarmedIsZero ==
    core_setpoint.core_mode = "DISARMED" =>
        /\ core_state.esc_out = Zero4
        /\ FilterIsZero(core_state.roll_ctrl)
        /\ FilterIsZero(core_state.pitch_ctrl)
        /\ FilterIsZero(core_state.yaw_ctrl)

\* C3: arming is gated by the user sequence under every interleaving: the
\* only step that takes the core mode from DISARMED to another value is the
\* last step of an arming sequence whose six observations were made.
C3_OnlyArmingArms ==
    [][ (core_setpoint.core_mode = "DISARMED" /\
         core_setpoint'.core_mode # "DISARMED")
            => (stack_pc = "arm_load" /\ hist.armObs = 6) ]_vars

\* The k-th condition of the arming sequence holds in the current state.
ArmObserved(k) ==
    CASE k = 1 -> ~Tipped(core_state, ARM_TIP_THRESHOLD)
      [] k = 2 -> user_interface.kill_switch = 0
      [] k = 3 -> user_interface.throttle_stick <= -STICK_LIMIT
      [] k = 4 -> user_interface.throttle_stick >= STICK_LIMIT
      [] k = 5 -> user_interface.throttle_stick <= -STICK_LIMIT
      [] k = 6 -> ~Tipped(core_state, ARM_TIP_THRESHOLD)
      [] OTHER -> FALSE

\* C4, as the code has it: the arming sequence completes only after its six
\* conditions were observed in order, each one holding when it was observed
\* (level, kill switch released, throttle down, up, down, level); a tip-over
\* measured at the last observation sends the sequence back to its first
\* state.  The attitude is looked at in the first and the last observation
\* only.
C4_SixObservationsInOrder ==
    [][ /\ (hist'.armObs # hist.armObs /\ hist'.armObs # 0)
              => (hist'.armObs = hist.armObs + 1 /\ ArmObserved(hist'.armObs))
        /\ (hist'.who = "armed" /\ hist.who # "armed")
              => (stack_pc = "arm_load" /\ hist.armObs = 6 /\
                  core_setpoint'.core_mode = "ATTITUDE")
        /\ (stack_pc = "arm_level2" /\ stack_pc' # stack_pc /\
            Tipped(core_state, ARM_TIP_THRESHOLD))
              => (stack_pc' = "arm_level" /\ hist'.armObs = 0) ]_vars

\* The sequence has armed the core although a tip-over was measured between
\* its first and its last observation.
C4_ArmedAfterTip ==
    /\ hist.who = "armed"
    /\ hist.armObs = 6
    /\ hist.armTip
    /\ core_setpoint.core_mode = "ATTITUDE"

\* C4, as stated: the arming sequence completes only if no tip-over (|roll|
\* or |pitch| above 0.2) occurred at any moment between its first and its
\* last observation.
C4_NoTipDuringSequence == hist.who = "armed" => ~hist.armTip

\* C5: after a component has called disarm, the next cycle of the attitude
\* core that starts after the disarm observes DISARMED: a cycle that started
\* while the gate was closed does not take the armed branch and send pulses.
C5_NextCycleObservesDisarm == core_pc = "finish" => ~hist.cycleClosed

\* C6: a tick of the safety watchdog on an armed core tipped past 1.5 rad in
\* roll or pitch leaves the core DISARMED; a tick on a disarmed core, or with
\* roll and pitch within 1.5 rad, changes no shared state; the watchdog keeps
\* running after a tip-over.
C6_SafetyTick ==
    [][ (SafetyTick /\ state # "EXITING") =>
          /\ safety_pc' = "run"
          /\ IF Armed /\ (Abs(core_state.roll) > TIP_THRESHOLD \/
                          Abs(core_state.pitch) > TIP_THRESHOLD)
             THEN core_setpoint'.core_mode = "DISARMED"
             ELSE UNCHANGED <<state, core_config, core_setpoint, core_state,
                              user_interface, pwm, red, grn>> ]_vars

\* The watchdog has disarmed a tipped core and is still running.
C6_TipDisarmed ==
    /\ hist.who = "safety"
    /\ core_setpoint.core_mode = "DISARMED"
    /\ Abs(core_state.roll) > TIP_THRESHOLD
    /\ safety_pc = "run"

\* A poll of the radio watcher that finds no new frame.
SilentPoll == WatcherPoll /\ state # "EXITING" /\ using_dsm2 /\ ~dsm2_new

\* C7, as the code has it: with no further frame the flight mode is
\* EMERGENCY_LAND once the watcher has polled with 0.3 s or more since the
\* last frame; a poll made more than 5 s after the last frame leaves the core
\* DISARMED (a poll at 5 s does not disarm); with frames absent for ever an
\* armed core is eventually DISARMED.
C7_Ladder ==
    /\ []((using_dsm2 /\ polled /\ elapsed >= DSM2_LAND_TIMEOUT)
              => user_interface.flight_mode = "EMERGENCY_LAND")
    /\ [][ (SilentPoll /\ elapsed > DSM2_DISARM_TIMEOUT)
              => core_setpoint'.core_mode = "DISARMED" ]_vars
    /\ ((using_dsm2 /\ Armed /\ ~dsm2_new)
              ~> (core_setpoint.core_mode = "DISARMED" \/ dsm2_new))

\* The watcher has landed and then disarmed an armed core on the time-out.
C7_TimedOut ==
    /\ hist.frames
    /\ hist.who = "timeout"
    /\ core_setpoint.core_mode = "DISARMED"
    /\ user_interface.flight_mode = "EMERGENCY_LAND"
    /\ elapsed > DSM2_DISARM_TIMEOUT

\* C7, as stated: after a poll without a new frame the flight mode is
\* EMERGENCY_LAND once the time since the last frame reaches 0.3 s and the
\* core is DISARMED once it reaches 5 s.
C7_AtTheTimeouts ==
    [][ SilentPoll =>
          /\ elapsed >= DSM2_LAND_TIMEOUT
                => user_interface'.flight_mode = "EMERGENCY_LAND"
          /\ elapsed >= DSM2_DISARM_TIMEOUT
                => core_setpoint'.core_mode = "DISARMED" ]_vars

\* The sticks an emergency landing forces.
SticksForced(ui) ==
    /\ ui.throttle_stick = -ONE
    /\ ui.roll_stick = 0
    /\ ui.pitch_stick = 0
    /\ ui.yaw_stick = 0

\* C8, as the code has it: in one loss-of-signal episode the watcher makes
\* the transition to EMERGENCY_LAND at most once, and exactly once by the
\* first poll at 0.3 s or later when the last frame had the kill switch
\* released; the step of the transition forces the throttle stick to -1 and
\* the other sticks to 0; later polls of the episode leave the user inputs
\* alone.
C8_LandOnce ==
    /\ [](hist.lands <= 1)
    /\ []((hist.frames /\ user_interface.kill_switch = 0 /\ using_dsm2 /\
           polled /\ elapsed >= DSM2_LAND_TIMEOUT) => hist.lands = 1)
    /\ [][ (user_interface.flight_mode # "EMERGENCY_LAND" /\
            user_interface'.flight_mode = "EMERGENCY_LAND")
              => (hist'.lands = hist.lands + 1 /\
                  SticksForced(user_interface')) ]_vars
    /\ [][ (SilentPoll /\ hist.lands = 1)
              => user_interface' = user_interface ]_vars

\* An episode in which the watcher has landed and polled again later.
C8_LandedAndPolledAgain ==
    /\ hist.frames
    /\ hist.lands = 1
    /\ polled
    /\ elapsed > DSM2_LAND_TIMEOUT + 1
    /\ user_interface.flight_mode = "EMERGENCY_LAND"
    /\ SticksForced(user_interface)

\* C8, as stated: in every loss-of-signal episode the watcher has made the
\* transition exactly once when it has polled at 0.3 s or later.
C8_ExactlyOnce ==
    (hist.frames /\ using_dsm2 /\ polled /\ elapsed >= DSM2_LAND_TIMEOUT)
        => hist.lands = 1

\* C9: a disarm on the radio time-out is preceded, in the same loss-of-signal
\* episode, by the transition to EMERGENCY_LAND; whenever the watcher's
\* disarm test holds the flight mode is EMERGENCY_LAND, never USER_ATTITUDE.
C9_LandBeforeDisarm ==
    /\ hist.tmo => (hist.lands = 1 /\
                    user_interface.flight_mode = "EMERGENCY_LAND")
    /\ (using_dsm2 /\ DisarmTimeout(core_setpoint, elapsed))
          => user_interface.flight_mode = "EMERGENCY_LAND"

\* The watcher has disarmed on the time-out in an episode in which it landed.
C9_TimeoutAfterLand ==
    /\ hist.tmo
    /\ hist.who = "timeout"
    /\ hist.lands = 1
    /\ core_setpoint.core_mode = "DISARMED"

\* C10: while the time since a frame with the kill switch released is at
\* most 0.3 s, the flight mode stays USER_ATTITUDE: the watcher has not
\* landed, forced the sticks or disarmed on the time-out in that gap.
C10_ShortGapKeepsMode ==
    (hist.frames /\ user_interface.kill_switch = 0 /\
     elapsed <= DSM2_LAND_TIMEOUT)
        => /\ user_interface.flight_mode = "USER_ATTITUDE"
           /\ hist.lands = 0
           /\ ~hist.tmo

(***************************************************************************)
(* The integrator gate: an armed core that flies a fixed setpoint, for      *)
(* several idle speeds, throttles and measured attitudes.                   *)
(***************************************************************************)
GateConfigs ==
    { [ idle_speed |-> s, roll_rate_per_rad |-> 4000,
        pitch_rate_per_rad |-> 4000, max_roll_setpoint |-> 400,
        max_pitch_setpoint |-> 400, max_yaw_rate |-> 2000,
        Droll_KP |-> 1000, Dpitch_KP |-> 1000, yaw_KP |-> 1000 ] :
        s \in {0, 100, 700} }

GateSetpoints ==
    { [ core_mode |-> "ATTITUDE", throttle |-> t, roll |-> 0, pitch |-> 0,
        yaw_rate |-> 0, yaw |-> 0 ] : t \in {0, 300, 1000} }

GateSamples ==
    { [ fx |-> p, fy |-> r, fz |-> z, gx |-> 0, gy |-> 0, gz |-> 0 ] :
        p \in {0, 300}, r \in {0, -300, -1500}, z \in {0, 400} }

CoreSenseGate == CoreSenseFrom(GateSamples)

\* The tasks other than the attitude core, as main leaves them.
TasksAtStart ==
    /\ state = "RUNNING"
    /\ user_interface = UserInterfaceZero
    /\ previous_core_mode = "DISARMED"
    /\ core_pc = "idle"
    /\ core_locals = LocalsZero
    /\ pwm = Zero4
    /\ stack_pc = "loop"
    /\ arm_i = 0
    /\ stack_ran = FALSE
    /\ safety_pc = "run"
    /\ watcher_pc = "run"
    /\ using_dsm2 = FALSE
    /\ elapsed = 0
    /\ polled = FALSE
    /\ dsm2_new = FALSE
    /\ pause_pc = "idle"
    /\ pause_i = 0
    /\ red = 1
    /\ grn = 0
    /\ led_pc = "start"
    /\ toggle = FALSE
    /\ printf_pc = "run"
    /\ main_pc = "wait"

InitGate ==
    /\ TasksAtStart
    /\ mpu = MpuZero
    /\ core_config \in GateConfigs
    /\ core_setpoint \in GateSetpoints
    /\ core_state = initialize_filters(CoreStateZero, core_config)
    /\ hist = [HistZero EXCEPT !.closed = FALSE, !.cycleClosed = FALSE,
                               !.who = "armed"]

NextGate == CoreSenseGate \/ CoreControl \/ CoreFinish

SpecGate == InitGate /\ [][NextGate]_vars

Integrators(cs) ==
    << cs.dRoll_err_integrator, cs.dPitch_err_integrator,
       cs.yaw_err_integrator >>

\* C11, as the code has it: in every armed control cycle in which the
\* throttle component u[0] (the throttle scaled into [idle_speed, 0.8] and
\* divided by cos(roll)*cos(pitch)) is at most INT_CUTOFF_TH, the three error
\* integrators keep the value they had before the cycle.
C11_GateOnThrottleComponent ==
    [][ (CoreControl /\ Armed /\
         ThrottleControl(core_state, core_setpoint, core_config)
             <= INT_CUTOFF_TH)
          => Integrators(core_state') = Integrators(core_state) ]_vars

\* An armed cycle with a rate error has run below the gate: the integrators
\* are still zero.
C11_HeldIntegrators ==
    /\ core_pc = "finish"
    /\ ThrottleControl(core_state, core_setpoint, core_config) <= INT_CUTOFF_TH
    /\ Abs(Mul(core_state.dRoll_err, DT)) > 0
    /\ Integrators(core_state) = << 0, 0, 0 >>

\* C11, as stated: in every armed control cycle in which setpoint.throttle
\* is at most INT_CUTOFF_TH the three error integrators keep their value,
\* for every idle speed and every measured roll and pitch.
C11_GateOnSetpointThrottle ==
    [][ (CoreControl /\ Armed /\ core_setpoint.throttle <= INT_CUTOFF_TH)
          => Integrators(core_state') = Integrators(core_state) ]_vars

(***************************************************************************)
(* The mixer and its headroom step as a function of the control vector u.   *)
(***************************************************************************)
MixerInputs ==
    { << t, r, p, y >> : t \in {0, 400, 800, 900, 1400},
                         r \in {-200, 0, 200}, p \in {-200, 0, 200},
                         y \in {-210, 0, 210} }

InitMixer ==
    /\ TasksAtStart
    /\ mpu = MpuZero
    /\ core_config \in Configs
    /\ core_setpoint = CoreSetpointZero
    /\ core_state \in { [initialize_filters(CoreStateZero, core_config)
                            EXCEPT !.control_u = u] : u \in MixerInputs }
    /\ hist = HistZero

\* Lines 502-531: mix the control vector and make headroom; the result is
\* kept in esc_out.
MixerStep ==
    /\ core_pc = "idle"
    /\ core_state' = [core_state EXCEPT
                         !.esc_out = Headroom(Mix(core_state.control_u))]
    /\ core_pc' = "finish"
    /\ UNCHANGED <<loopVars, core_locals, state, core_config, core_setpoint, user_interface, mpu,
                   previous_core_mode, pwm, stackVars, safety_pc, radioVars,
                   pauseVars, red, grn, hist>>

NextMixer == MixerStep

SpecMixer == InitMixer /\ [][NextMixer]_vars

\* C12: after the headroom step the largest mixer output is at most 1,
\* every pairwise difference esc[i] - esc[j] is what it was before the step,
\* and a mixer output whose largest value is at most 1 is left unchanged.
C12_HeadroomStep ==
    [][ MixerStep =>
          LET before == Mix(core_state.control_u)
              after  == core_state'.esc_out
          IN  /\ Max4(after) <= ONE
              /\ \A i, j \in 1..4 : after[i] - after[j] = before[i] - before[j]
              /\ (Max4(before) <= ONE => after = before) ]_vars

\* A mixer output above 1 with unequal motors has been through the step and
\* was shifted down.
C12_ShiftedDown ==
    /\ core_pc = "finish"
    /\ Max4(Mix(core_state.control_u)) > ONE
    /\ Max4(core_state.esc_out) = ONE
    /\ \E i \in 1..4 : core_state.esc_out[i] < ONE

(***************************************************************************)
(* The yaw unwrap: a heading that moves a little each cycle around the      *)
(* +-pi boundary, on the ground and in flight.                              *)
(***************************************************************************)
MaxYawStep == 100
MaxSpins == 1

YawReadings == {-3120, -3100, 3100, 3120}

\* The true change of heading between two fused-z readings.
TrueChange(a, b) ==
    LET d == Abs(a - b)
    IN  IF 2 * d > TWO_PI THEN TWO_PI - d ELSE d

YawSamples ==
    { [MpuZero EXCEPT !.fz = z] : z \in YawReadings }

CoreSenseYaw ==
    /\ CoreSenseTracked({ m \in YawSamples :
                            TrueChange(m.fz, mpu.fz) <= MaxYawStep }, TRUE)
    /\ Abs(core_state'.num_yaw_spins) <= MaxSpins

\* Lines 734 and 745-753: between two cycles the mode is armed with the
\* sticks down, or disarmed.
YawModeWrite ==
    /\ core_pc = "idle"
    /\ core_setpoint' =
         [core_setpoint EXCEPT
            !.core_mode = IF @ = "DISARMED" THEN "ATTITUDE" ELSE "DISARMED"]
    /\ UNCHANGED <<loopVars, core_locals, state, core_config, user_interface, coreVars, stackVars,
                   safety_pc, radioVars, pauseVars, red, grn, hist>>

InitYaw ==
    /\ TasksAtStart
    /\ mpu \in YawSamples
    /\ core_config \in Configs
    /\ core_setpoint = CoreSetpointZero
    /\ core_state = initialize_filters(CoreStateZero, core_config)
    /\ hist = HistZero

NextYaw == CoreSenseYaw \/ CoreControl \/ CoreFinish \/ YawModeWrite

SpecYaw == InitYaw /\ [][NextYaw]_vars

\* C13: while the heading changes by little each cycle, the yaw reported by
\* the core in flight never jumps by about 2*pi between two consecutive
\* cycles: from the second armed cycle on it changes by what the heading
\* truly changed.
C13_NoJumpInFlight ==
    [][ (CoreSenseYaw /\ previous_core_mode # "DISARMED" /\
         core_setpoint.core_mode # "DISARMED")
          => Abs(core_state'.yaw - core_state.yaw) <= MaxYawStep ]_vars

(***************************************************************************)
(* Shutdown: the pause button may be held, and the tasks that only loop    *)
(* until the lifecycle is EXITING run with the others.  Of the attitude    *)
(* core only the estimate of the attitude takes part: the IMU delivers one *)
(* sample, level or tipped, at any moment.                                 *)
(***************************************************************************)
\* led_manager(), lines 923-944: one action per loop iteration.  The local
\* toggle is read before it is ever written: its first value is any.
LedTick ==
    /\ led_pc \in {"start", "run"}
    /\ IF state = "EXITING"
       THEN /\ led_pc' = "done"
            /\ UNCHANGED <<toggle, red, grn, hist>>
       ELSE /\ led_pc' = "run"
            /\ IF core_setpoint.core_mode = "DISARMED"
               THEN \E t \in IF led_pc = "start" THEN BOOLEAN ELSE {toggle} :
                      /\ toggle' = t
                      /\ red' = IF t THEN 0 ELSE 1
                      /\ hist' = [hist EXCEPT
                                     !.led = IF t THEN "low" ELSE "high"]
                      /\ UNCHANGED grn
               ELSE /\ toggle' = FALSE
                    /\ grn' = 1
                    /\ red' = 0
                    /\ hist' = [hist EXCEPT !.led = "armed"]
    /\ UNCHANGED <<state, core_config, core_setpoint, user_interface, coreVars,
                   core_locals,
                   stackVars, safety_pc, radioVars, pauseVars, printf_pc,
                   main_pc>>

\* printf_thread_func(), lines 985-1037: prints, which changes nothing here,
\* until the lifecycle is EXITING.
PrintfTick ==
    /\ printf_pc = "run"
    /\ state = "EXITING"
    /\ printf_pc' = "done"
    /\ UNCHANGED <<state, core_config, core_setpoint, user_interface, coreVars,
                   core_locals,
                   stackVars, safety_pc, radioVars, pauseVars, red, grn,
                   led_pc, toggle, main_pc, hist>>

\* main(), lines 1184-1192: wait for EXITING, then clean up and return.
MainWait ==
    /\ main_pc = "wait"
    /\ state = "EXITING"
    /\ main_pc' = "done"
    /\ UNCHANGED <<state, core_config, core_setpoint, user_interface, coreVars,
                   core_locals,
                   stackVars, safety_pc, radioVars, pauseVars, red, grn,
                   led_pc, toggle, printf_pc, hist>>

\* The button is read low or high.
PauseHold == PausePollFrom({"LOW", "HIGH"})

\* The IMU sample: the vehicle is tipped past the arming limit.
ExitSamples ==
    { [ fx |-> 0, fy |-> -1600, fz |-> 0, gx |-> 0, gy |-> 0, gz |-> 0 ] }

\* Radio frames: throttle down or up, kill switch released.
ExitFrames ==
    { [ ch1 |-> t, ch2 |-> 0, ch3 |-> 0, ch4 |-> 0, ch5 |-> ONE, ch6 |-> ONE ] :
        t \in {-ONE, ONE} }

CoreSenseExit == CoreSenseFrom(ExitSamples)
WatcherPollExit == WatcherPollFrom(ExitFrames)

InitExit ==
    /\ Init
    /\ using_dsm2 = FALSE
    /\ elapsed = 0

NextExit ==
    \/ CoreSenseExit
    \/ StackLoop \/ StackCheck \/ StackTranslate
    \/ ArmLevel \/ ArmKill \/ ArmDown1 \/ ArmUp \/ ArmDown2 \/ ArmLevel2
    \/ ArmWake \/ ArmComplete
    \/ SafetyTick
    \/ WatcherPollExit \/ FrameArrive
    \/ PausePress \/ PauseHold
    \/ LedTick \/ PrintfTick \/ MainWait

\* The steps of the periodic tasks.
TaskStep ==
    \/ StackStep \/ SafetyTick \/ WatcherPollExit
    \/ LedTick \/ PrintfTick \/ MainWait

\* The scheduler does not stop: while a task can step, some task steps.
SpecExit == InitExit /\ [][NextExit]_vars /\ WF_vars(TaskStep)

\* The periodic tasks have all returned.
AllTasksDone ==
    /\ stack_pc = "done"
    /\ safety_pc = "done"
    /\ watcher_pc = "done"
    /\ led_pc = "done"
    /\ printf_pc = "done"
    /\ main_pc = "done"

\* C15: once the lifecycle is EXITING, the supervisor (wherever it is, the
\* wait steps of the arming sequence included), the safety watchdog, the
\* radio watcher, the LED task, the printer and the wait loop of main all
\* eventually terminate, the threads being scheduled fairly.
C15_AllTasksTerminate == (state = "EXITING") ~> AllTasksDone

\* The lifecycle is EXITING while the supervisor waits in the arming
\* sequence for a level vehicle, the vehicle being tipped.
C15_ExitWhileWaitingForLevel ==
    /\ state = "EXITING"
    /\ stack_pc = "arm_level"
    /\ Tipped(core_state, ARM_TIP_THRESHOLD)

\* C14: a press of the pause button disarms and leaves the lifecycle as it
\* is; a poll that finds the button released ends the handler with the
\* lifecycle unchanged; the poll that finds it pressed for the tenth time in
\* a row sets the lifecycle to EXITING, no earlier poll does; and the
\* lifecycle never becomes EXITING except at that tenth poll.
C14_PauseButton ==
    [][ /\ PausePress =>
             core_setpoint'.core_mode = "DISARMED" /\ state' = state
        /\ PauseHold =>
             IF pause_i' = pause_i
             THEN pause_pc' = "idle" /\ state' = state
             ELSE /\ pause_i' = pause_i + 1
                  /\ IF pause_i' = PAUSE_POLLS
                     THEN state' = "EXITING"
                     ELSE state' = state /\ pause_pc' = "held"
        /\ (state' = "EXITING" /\ state # "EXITING") =>
             PauseHold /\ pause_i' = PAUSE_POLLS ]_vars

\* The button was found pressed at ten polls and the lifecycle is EXITING.
C14_HeldForTenPolls == state = "EXITING" /\ pause_i = PAUSE_POLLS

\* C16: setpoint.mode is DISARMED when the threads start, and in every
\* terminal state of the program (the lifecycle is EXITING and every task
\* has returned) setpoint.mode is DISARMED.
C16_DisarmedWhenTerminated ==
    /\ (stack_pc = "loop" /\ ~stack_ran /\ hist.who = "main")
         => core_setpoint.core_mode = "DISARMED"
    /\ (state = "EXITING" /\ AllTasksDone)
         => core_setpoint.core_mode = "DISARMED"

\* A step of the attitude core.
CoreStep == CoreSense \/ CoreControl \/ CoreFinish

\* C17: once the threads run, every write to a field of core_state, the
\* three PID filters included, is made by a step of the attitude core: no
\* step of another task changes core_state.
C17_OnlyCoreWritesCoreState ==
    [][ core_state' # core_state => CoreStep ]_vars

\* C18: every pulse on a PWM channel is sent by the attitude core: no step
\* of another task changes the pulse on a channel.
C18_OnlyCoreSendsPulses ==
    [][ pwm' # pwm => CoreStep ]_vars

(***************************************************************************)
(* The writers of the setpoint: the flight system of Spec with the yaw     *)
(* stick held over, so that the yaw setpoint moves in flight, and a level  *)
(* vehicle.                                                                *)
(***************************************************************************)
\* Radio frames: throttle down or up, yaw stick over, kill switch released.
YawFrames ==
    { [ ch1 |-> t, ch2 |-> 0, ch3 |-> 0, ch4 |-> ONE, ch5 |-> ONE,
        ch6 |-> ONE ] : t \in {-ONE, ONE} }

WatcherPollYaw == WatcherPollFrom(YawFrames)
CoreSenseLevel == CoreSenseFrom({MpuZero})

NextWriters ==
    \/ CoreSenseLevel \/ CoreControl \/ CoreFinish
    \/ StackLoop \/ StackCheck \/ StackTranslate
    \/ ArmLevel \/ ArmKill \/ ArmDown1 \/ ArmUp \/ ArmDown2 \/ ArmLevel2
    \/ ArmWake \/ ArmComplete
    \/ SafetyTick
    \/ WatcherPollYaw \/ FrameArrive
    \/ PausePress \/ PausePoll

SpecWriters == Init /\ [][NextWriters]_vars

\* The step writes no field of the setpoint but core_mode, set to DISARMED.
WritesModeDisarmed ==
    core_setpoint' = [core_setpoint EXCEPT !.core_mode = "DISARMED"]

\* The step writes no field of the setpoint but yaw.
WritesYaw ==
    core_setpoint' = [core_setpoint EXCEPT !.yaw = core_setpoint'.yaw]

\* C19, as the code has it: a write to the setpoint by a task other than
\* the supervisor is either the write core_mode := DISARMED or a write of
\* the yaw setpoint by the mode dispatch of the attitude core; the
\* supervisor never writes the yaw setpoint.
C19_ForeignWrites ==
    [][ /\ (core_setpoint' # core_setpoint /\ ~StackStep) =>
               \/ WritesModeDisarmed
               \/ (CoreControl /\ WritesYaw)
        /\ StackStep => core_setpoint'.yaw = core_setpoint.yaw ]_vars

\* The attitude core has advanced the yaw setpoint in flight.
C19_CoreMovedYaw ==
    /\ core_pc = "finish"
    /\ Armed
    /\ core_setpoint.yaw # 0

\* C19, as stated: every write to the setpoint by a task other than the
\* supervisor is the write core_mode := DISARMED.
C19_OnlyDisarmFromOthers ==
    [][ (core_setpoint' # core_setpoint /\ ~StackStep)
          => WritesModeDisarmed ]_vars

(***************************************************************************)
(* Arming with an edited configuration file: the supervisor, the radio     *)
(* watcher with the roll stick centred or over, momentary presses of the   *)
(* pause button, and a settings file whose roll and pitch limits are 0.4   *)
(* or 0.2 rad each time it is loaded.                                      *)
(***************************************************************************)
ReloadConfigs ==
    { [ idle_speed |-> 100, roll_rate_per_rad |-> 4000,
        pitch_rate_per_rad |-> 4000, max_roll_setpoint |-> m,
        max_pitch_setpoint |-> m, max_yaw_rate |-> 2000,
        Droll_KP |-> 1000, Dpitch_KP |-> 1000, yaw_KP |-> 1000 ] :
        m \in {400, 200} }

\* Radio frames: throttle down or up, roll stick centred or over, every
\* channel within [-1, 1].
RollFrames ==
    { [ ch1 |-> t, ch2 |-> r, ch3 |-> 0, ch4 |-> 0, ch5 |-> ONE,
        ch6 |-> ONE ] : t \in {-ONE, ONE}, r \in {0, -ONE} }

WatcherPollRoll == WatcherPollFrom(RollFrames)
ArmCompleteReload == ArmCompleteFrom(ReloadConfigs)

InitReload ==
    /\ TasksAtStart
    /\ mpu = MpuZero
    /\ core_config \in ReloadConfigs
    /\ core_setpoint = CoreSetpointZero
    /\ core_state = initialize_filters(CoreStateZero, core_config)
    /\ hist = HistZero

NextReload ==
    \/ StackLoop \/ StackCheck \/ StackTranslate
    \/ ArmLevel \/ ArmKill \/ ArmDown1 \/ ArmUp \/ ArmDown2 \/ ArmLevel2
    \/ ArmWake \/ ArmCompleteReload
    \/ WatcherPollRoll \/ FrameArrive
    \/ PausePress \/ PausePoll

SpecReload == InitReload /\ [][NextReload]_vars

\* C20: with every radio channel in [-1, 1], in every reachable state the
\* roll and pitch setpoints are within the limits of the configuration that
\* is loaded and the throttle setpoint the core uses is in [0, 1], also after
\* the configuration was reloaded at arming.
C20_SetpointWithinLimits ==
    /\ Abs(core_setpoint.roll) <= core_config.max_roll_setpoint
    /\ Abs(core_setpoint.pitch) <= core_config.max_pitch_setpoint
    /\ core_setpoint.throttle \in 0..ONE

\* C21, as the code has it: for the control vector u = [0.9, 0.2, 0, 0] the
\* X mixer yields [0.7, 1.1, 1.1, 0.7] and the headroom step then yields
\* [0.6, 1.0, 1.0, 0.6].
C21_MixerExample ==
    [][ (MixerStep /\ core_state.control_u = << 900, 200, 0, 0 >>) =>
          /\ Mix(core_state.control_u) = << 700, 1100, 1100, 700 >>
          /\ core_state'.esc_out = << 600, 1000, 1000, 600 >> ]_vars

\* The control vector [0.9, 0.2, 0, 0] has been mixed.
C21_ExampleMixed ==
    /\ core_pc = "finish"
    /\ core_state.control_u = << 900, 200, 0, 0 >>
    /\ core_state.esc_out = << 600, 1000, 1000, 600 >>

\* C21, as stated: for the control vector u = [0.9, 0.2, 0, 0] the X mixer
\* yields [0.7, 0.9, 1.1, 0.9] and the headroom step then yields
\* [0.6, 0.8, 1.0, 0.8].
C21_MixerExampleAsStated ==
    [][ (MixerStep /\ core_state.control_u = << 900, 200, 0, 0 >>) =>
          /\ Mix(core_state.control_u) = << 700, 900, 1100, 900 >>
          /\ core_state'.esc_out = << 600, 800, 1000, 800 >> ]_vars

\* C22: a cycle that runs the controllers while the previous mode is
\* DISARMED (the first cycle after start, or the first after a cycle that
\* observed DISARMED) sends pulse 0 on the four channels and leaves esc_out
\* and control_u as they are; a cycle that observes DISARMED sends nothing
\* and records DISARMED as the previous mode; the end of a cycle records the
\* mode as the previous mode; so a pulse above 0 is only sent by a cycle
\* whose preceding cycle ended with a mode other than DISARMED.
C22_MinimumPulseFirst ==
    [][ /\ (CoreControl /\ Armed /\ previous_core_mode = "DISARMED") =>
             /\ pwm' = Zero4
             /\ core_state'.esc_out = core_state.esc_out
             /\ core_state'.control_u = core_state.control_u
        /\ (CoreControl /\ ~Armed) =>
             pwm' = pwm /\ previous_core_mode' = "DISARMED"
        /\ CoreFinish => previous_core_mode' = core_setpoint.core_mode
        /\ (pwm' # pwm /\ pwm' # Zero4) =>
             CoreControl /\ previous_core_mode # "DISARMED" ]_vars

\* The controllers have run in a first armed cycle, on a rolled vehicle, and
\* the pulses are 0.
C22_FirstArmedCycle ==
    /\ core_pc = "finish"
    /\ previous_core_mode = "DISARMED"
    /\ core_state.roll_ctrl.current_output # 0
    /\ pwm = Zero4

\* C23: a control cycle that observes the mode DISARMED zeroes the three
\* error integrators and the roll-rate, pitch-rate and yaw filters, sets the
\* yaw setpoint to 0 and esc_out to zero, records DISARMED as the previous
\* mode and sends no pulse.
C23_DisarmedCycle ==
    [][ (CoreControl /\ ~Armed) =>
          /\ Integrators(core_state') = << 0, 0, 0 >>
          /\ FilterIsZero(core_state'.roll_ctrl)
          /\ FilterIsZero(core_state'.pitch_ctrl)
          /\ FilterIsZero(core_state'.yaw_ctrl)
          /\ core_setpoint'.yaw = 0
          /\ core_state'.esc_out = Zero4
          /\ previous_core_mode' = "DISARMED"
          /\ pwm' = pwm ]_vars

(***************************************************************************)
(* The radio watcher with frames of every stick, kill-switch and           *)
(* mode-switch position, beside the supervisor, the clock and the pause    *)
(* button.                                                                 *)
(***************************************************************************)
StickFrames ==
    { [ ch1 |-> t, ch2 |-> s[1], ch3 |-> s[2], ch4 |-> s[3], ch5 |-> k,
        ch6 |-> m ] :
        t \in {-ONE, ONE}, s \in { << 0, 0, 0 >>, << 500, -250, ONE >> },
        k \in {-ONE, 0, ONE}, m \in {-ONE, ONE} }

WatcherPollSticks == WatcherPollFrom(StickFrames)

NextSticks ==
    \/ StackLoop \/ StackCheck \/ StackTranslate
    \/ ArmLevel \/ ArmKill \/ ArmDown1 \/ ArmUp \/ ArmDown2 \/ ArmLevel2
    \/ ArmWake \/ ArmComplete
    \/ WatcherPollSticks \/ FrameArrive \/ Tick
    \/ PausePress \/ PausePoll

SpecSticks == Init /\ [][NextSticks]_vars

\* C24: on a new frame with channel 5 < 0 the watcher sets the kill switch,
\* disarms and leaves the four sticks and the flight mode unchanged; on a
\* frame with channel 5 >= 0 it clears the kill switch, sets throttle = ch1,
\* roll = -ch2, pitch = -ch3, yaw = ch4 and the flight mode USER_ATTITUDE
\* for every value of channel 6.
C24_FrameEffect ==
    [][ \A f \in StickFrames :
          (WatcherPollFrom({f}) /\ state # "EXITING" /\ dsm2_new) =>
             IF f.ch5 < 0
             THEN /\ user_interface' = [user_interface EXCEPT !.kill_switch = 1]
                  /\ core_setpoint'.core_mode = "DISARMED"
             ELSE /\ user_interface'.kill_switch = 0
                  /\ user_interface'.throttle_stick = f.ch1
                  /\ user_interface'.roll_stick = -f.ch2
                  /\ user_interface'.pitch_stick = -f.ch3
                  /\ user_interface'.yaw_stick = f.ch4
                  /\ user_interface'.flight_mode = "USER_ATTITUDE" ]_vars

\* A kill frame has been handled after a frame that moved the sticks: the
\* sticks and the flight mode of the earlier frame are still there.
C24_KillFrameKeepsSticks ==
    /\ user_interface.kill_switch = 1
    /\ user_interface.roll_stick = -500
    /\ user_interface.pitch_stick = 250
    /\ user_interface.yaw_stick = ONE
    /\ user_interface.flight_mode = "USER_ATTITUDE"
    /\ core_setpoint.core_mode = "DISARMED"
    /\ ~dsm2_new

\* C25: of two consecutive ticks of the LED task that observe DISARMED, with
\* no arming between them, the second drives the red LED to the level
\* opposite to the first; a tick that observes an armed core drives green on
\* and red off.  hist.led is what the last tick drove.
C25_LedBlinks ==
    [][ (LedTick /\ state # "EXITING") =>
          IF core_setpoint.core_mode = "DISARMED"
          THEN /\ hist.led = "low" => red' = 1
               /\ hist.led = "high" => red' = 0
          ELSE grn' = 1 /\ red' = 0 ]_vars

(***************************************************************************)
(* The output stage of flight_core() one channel at a time, lines 542-558: *)
(* a cycle of an armed core whose previous mode was not DISARMED runs the  *)
(* controllers and the mixer, then the loop that clamps, sends and stores  *)
(* one channel an iteration.  The other tasks run between any two          *)
(* iterations.  The vehicle stays level and the setpoint is rewritten as   *)
(* in SpecCore.                                                            *)
(***************************************************************************)
\* Lines 374-531 of such a cycle: everything up to the headroom subtraction.
CoreMix ==
    /\ core_pc = "dispatch"
    /\ core_setpoint.core_mode # "DISARMED"
    /\ previous_core_mode # "DISARMED"
    /\ LET sp == AdvanceYaw(core_setpoint)
           c  == Controllers(core_state, sp, core_config)
       IN  /\ WithinBounds(c.cs, sp)
           /\ core_setpoint' = sp
           /\ core_state' = c.cs
           /\ core_locals' = [ new_esc |-> c.new_esc, u |-> c.u, i |-> 0 ]
    /\ core_pc' = "output"
    /\ hist' = [hist EXCEPT !.escBefore = core_state.esc_out]
    /\ UNCHANGED <<loopVars, state, core_config, user_interface, mpu,
                   previous_core_mode, pwm, stackVars, safety_pc, radioVars,
                   pauseVars, red, grn>>

\* Lines 548-557: one iteration of the output loop.
CoreOutput ==
    /\ core_pc = "output"
    /\ LET k == core_locals.i + 1
           e == ClampEsc(core_locals.new_esc[k])
       IN  /\ pwm' = [pwm EXCEPT ![k] = e]
           /\ core_state' = [core_state EXCEPT
                                !.esc_out[k] = e,
                                !.control_u[k] = core_locals.u[k]]
           /\ core_locals' = [core_locals EXCEPT !.new_esc[k] = e, !.i = k]
           /\ core_pc' = IF k = 4 THEN "finish" ELSE "output"
    /\ UNCHANGED <<loopVars, state, core_config, core_setpoint, user_interface,
                   mpu, previous_core_mode, stackVars, safety_pc, radioVars,
                   pauseVars, red, grn, hist>>

\* The other cycles: the mode is DISARMED, or it was at the previous cycle.
CoreControlFirst ==
    /\ core_setpoint.core_mode = "DISARMED" \/ previous_core_mode = "DISARMED"
    /\ CoreControl

NextOutput ==
    \/ CoreSenseLevel \/ CoreControlFirst \/ CoreMix \/ CoreOutput
    \/ CoreFinish \/ SetpointWrite

SpecOutput == InitCore /\ [][NextOutput]_vars

\* The frame the running output loop is storing.
NewFrame ==
    << ClampEsc(core_locals.new_esc[1]), ClampEsc(core_locals.new_esc[2]),
       ClampEsc(core_locals.new_esc[3]), ClampEsc(core_locals.new_esc[4]) >>

\* esc_out holds the frame of the previous cycle or the frame of this one.
EscOutWhole ==
    core_pc = "output" =>
        core_state.esc_out = hist.escBefore \/ core_state.esc_out = NewFrame

\* The first iteration of the output loop starts from the mixer output with
\* the headroom subtracted, and no pulse goes out elsewhere in the cycle.
PulseAfterMixer ==
    /\ (CoreOutput /\ core_locals.i = 0) =>
           core_locals.new_esc = Headroom(Mix(core_locals.u))
    /\ (CoreMix \/ CoreFinish \/ CoreSenseLevel) => pwm' = pwm

\* C26: the attitude core publishes esc_out as a whole frame: in no state,
\* and so at no read by another task, do some channels of esc_out hold the
\* values of the current cycle and the others those of the previous cycle;
\* and the first pulse of a cycle is sent only after the four mixer outputs
\* and the headroom subtraction have been computed.
C26_WholeFramePublished == []EscOutWhole /\ [][PulseAfterMixer]_vars

\* C27: every control cycle that sends a pulse greater than 0 computes it
\* from throttle, roll, pitch and yaw-rate setpoints that the supervisor
\* wrote after the most recent arming.  hist.fresh is false from a disarm or
\* an arming to the supervisor's next write of the setpoint.
C27_FreshSetpoint ==
    [][ (CoreControl /\ Armed /\ \E i \in 1..4 : pwm'[i] > 0) =>
          hist.fresh ]_vars

\* C28: the arming sequence never sets the mode ATTITUDE while the kill
\* switch is set: at the step that arms the core, user_interface.kill_switch
\* is 0.
C28_ArmsWithKillReleased ==
    [][ ArmComplete => user_interface.kill_switch = 0 ]_vars

\* C29: the arming sequence never completes during a loss of radio signal:
\* at the step that takes the core from DISARMED to ATTITUDE the flight mode
\* is not EMERGENCY_LAND.
C29_NoArmingWithoutSignal ==
    [][ ArmComplete => user_interface.flight_mode # "EMERGENCY_LAND" ]_vars

\* C30: the first control cycle after a DISARMED-to-armed transition ends
\* with num_yaw_spins = 0 and yaw = 0, whatever yaw and spin count the core
\* had before; so does the following cycle when the fused yaw has not
\* changed.  hist.firstArmed says that the last cycle was such a first cycle.
C30_YawZeroAtTakeoff ==
    [][ /\ (CoreSenseYaw /\ previous_core_mode = "DISARMED" /\ Armed) =>
              core_state'.num_yaw_spins = 0 /\ core_state'.yaw = 0
        /\ (CoreSenseYaw /\ hist.firstArmed /\ previous_core_mode # "DISARMED"
               /\ Armed /\ mpu'.fz = mpu.fz) =>
              core_state'.num_yaw_spins = 0 /\ core_state'.yaw = 0 ]_vars

(***************************************************************************)
(* The yaw unwrap with the mode written at any moment: wait_for_arming_    *)
(* sequence() (line 734) and disarm() (lines 745-753) run on other threads *)
(* than flight_core(), which reads core_setpoint.core_mode at line 349, at *)
(* line 373 and at line 582 of the same cycle.                             *)
(***************************************************************************)
\* Lines 734 and 745-753: the mode is written while a cycle is in progress.
ModeWriteMidCycle ==
    /\ core_pc # "idle"
    /\ core_setpoint' =
         [core_setpoint EXCEPT
            !.core_mode = IF @ = "DISARMED" THEN "ATTITUDE" ELSE "DISARMED"]
    /\ UNCHANGED <<loopVars, core_locals, state, core_config, user_interface,
                   coreVars, stackVars, safety_pc, radioVars, pauseVars, red,
                   grn, hist>>

NextSnapshot ==
    \/ CoreSenseYaw \/ CoreControl \/ CoreFinish
    \/ YawModeWrite \/ ModeWriteMidCycle

SpecSnapshot == InitYaw /\ [][NextSnapshot]_vars

\* C31: every control cycle that runs the controllers with previous mode
\* DISARMED (the first armed cycle) has, in that same cycle, taken the fused
\* yaw as imu_yaw_on_takeoff and reset num_yaw_spins, also when the mode is
\* set to ATTITUDE between the cycle's arming test and its mode dispatch.
\* hist.firstArmed says that the cycle's arming test succeeded.
C31_SnapshotInFirstArmedCycle ==
    [][ (CoreControl /\ Armed /\ previous_core_mode = "DISARMED") =>
          /\ hist.firstArmed
          /\ core_state.imu_yaw_on_takeoff = mpu.fz ]_vars

=============================================================================
